---- MODULE Spec2Model ----
(***************************************************************************)
(* Variable-length serial frame acquisition of the GD32H759 firmware:      *)
(* three receive links (USART0, USART1, UART4), each made of a circular    *)
(* receive DMA channel, the USART idle-line interrupt and a single-pulse   *)
(* confirmation timer (BSP/USART/usart.c, BSP/TIMER/timer.c).              *)
(*                                                                         *)
(* Execution model.  The DMA engine, the idle-line detector and the timer  *)
(* counters are hardware and act at any time.  The timer handlers run at   *)
(* NVIC pre-emption priority 4, the USART handlers at priority 5 (priority *)
(* group PRE4_SUB0, USER/main.c:15), the consumer in thread mode.  A       *)
(* pending handler of higher priority always runs before lower-priority    *)
(* code continues, so a timer handler may run inside a USART handler and   *)
(* every handler may run between two statements of the consumer.           *)
(***************************************************************************)
EXTENDS Integers, FiniteSets, Sequences, TLC

\* Scaled-down receive capacity (the three *_RECEIVE_LENGTH macros are 1024).
Cap == 3

\* Most bytes a channel moves between two re-arms.
MaxMoved == 7

\* Most hardware stimuli (bytes moved, idle-line detections) of a run in which
\* several links carry traffic.
MaxEvents == 5

\* Scaled-down period of the confirmation timers in ticks (1000 in the code).
TimerPeriod == 2

\* Scaled-down send capacity (USART_TERMINAL_SEND_LENGTH and UART4_SEND_LENGTH
\* are 1024).
SendCap == 3

\* Scaled-down depth of the transmit FIFO of a USART.
TxFifoDepth == 2

\* Width of the variable fmt_length in bits (uint16_t).
FmtLengthBits == 16

\* Scaled-down range of uint32_t, the type of ticks and tcnt (2^32 in the
\* code).
WordRange == 16

\* Scaled-down SysTick ticks per microsecond (SystemCoreClock / 1000000, 600
\* at 600 MHz).
FacUs == 2

\* Scaled-down microseconds per SysTick period (1000 in the code).
UsPerPeriod == 2

Links == {"USART0", "USART1", "UART4"}

DmaChannels == {"DMA_CH0", "DMA_CH2", "DMA_CH4"}

Timers == {"TIMER5", "TIMER6", "TIMER15"}

NoLink == "none"

\* BSP_USART_RECEIVE_LENGTH, USART_TERMINAL_RECEIVE_LENGTH, UART4_RECEIVE_LENGTH
RECEIVE_LENGTH(l) == Cap

\* The receive DMA channel the code of link l reads, resets and enables.
RxDmaChannel(l) ==
    CASE l = "USART0" -> "DMA_CH0"
      [] l = "USART1" -> "DMA_CH2"
      [] l = "UART4"  -> "DMA_CH4"

\* Mutant: the terminal link's handler arms TIMER5, as the code it was copied
\* from does.
ConfirmTimer_Copied(l) ==
    CASE l = "USART0" -> "TIMER5"
      [] l = "USART1" -> "TIMER5"
      [] l = "UART4"  -> "TIMER15"

\* The confirmation timer that link l's idle handler arms and whose handler
\* finalizes link l.
ConfirmTimer(l) ==
    CASE l = "USART0" -> "TIMER5"
      [] l = "USART1" -> "TIMER6"
      [] l = "UART4"  -> "TIMER15"

VARIABLES
    recv_length,          \* g_*_recv_length, per link
    recv_complete_flag,   \* g_*_recv_complete_flag, per link
    recv_buff,            \* g_*_recv_buff, per link: cells 0..C, 0 is NUL
    usart_idle,           \* USART_INT_FLAG_IDLE pending, per link
    line_busy,            \* a byte was received since the last idle detection
    dma_cnt,              \* DMA_CHxCNT: transfers remaining, per channel
    dma_ftf,              \* DMA_FLAG_FTF: full transfer finished, per channel
    dma_chen,             \* channel enabled, per channel
    timer_cen,            \* counter enabled (timer armed), per timer
    timer_up,             \* TIMER_INT_FLAG_UP pending, per timer
    usart_isr,            \* link whose USART handler stands before line 250
    main_link,            \* link the consumer is draining
    main_pc,              \* the consumer's position
    timer_cnt,            \* TIMERx_CNT: ticks counted, per timer
    final_length,         \* history: length stored by the finalization that set the flag
    since_arm,            \* history: ticks since the handler last restarted the timer
    elapses,              \* history: elapse events since the handler last restarted the timer
    fired,                \* history: the timer has elapsed since initialisation
    moved,                \* history: bytes moved since init / last re-arm
    hist,                 \* history: events of the link since init / re-arm
    events,               \* history: hardware stimuli so far
    scope,                \* the links that carry traffic in this run
    tx_pc,                \* position of the caller in *_print_fmt, per port
    tx_cnt,               \* DMA_CHxCNT of the transmit channel, per port
    tx_chen,              \* transmit channel enabled, per port
    tx_ftf,               \* DMA_FLAG_FTF of the transmit channel, per port
    tx_fifo,              \* frames in the transmit FIFO of the USART, per port
    fmt_length,           \* the local fmt_length of *_print_fmt, per port
    fmt_n,                \* history: what vsnprintf returned in the call, per port
    tx_called,            \* history: a call of *_print_fmt has returned, per port
    SysTick_VAL,          \* SysTick->VAL, the down-counter
    delay_pc,             \* position of the caller in delay_us
    nus,                  \* the argument of delay_us
    ticks,                \* the local ticks of delay_us
    told,                 \* the local told of delay_us
    tcnt,                 \* the local tcnt of delay_us
    elapsed,              \* history: SysTick ticks since delay_us was entered
    samples               \* history: the kinds of sample taken in this call

vars == <<recv_length, recv_complete_flag, recv_buff, usart_idle, line_busy, dma_cnt, dma_ftf,
          dma_chen, timer_cen, timer_up, timer_cnt, usart_isr, main_link, main_pc,
          final_length, since_arm, elapses, fired, moved, hist, events, scope,
          tx_pc, tx_cnt, tx_chen, tx_ftf, tx_fifo, fmt_length, fmt_n, tx_called,
          SysTick_VAL, delay_pc, nus, ticks, told, tcnt, elapsed, samples>>

linkVars == <<recv_length, recv_complete_flag, usart_idle>>
lineVars == <<line_busy>>
buffVars == <<recv_buff>>
frameVars == <<final_length>>
armVars == <<since_arm, elapses, fired>>
dmaVars == <<dma_cnt, dma_ftf, dma_chen>>
timerVars == <<timer_cen, timer_up, timer_cnt>>
mainVars == <<main_link, main_pc>>
boundVars == <<events, scope>>
txVars == <<tx_pc, tx_cnt, tx_chen, tx_ftf, tx_fifo, fmt_length, fmt_n, tx_called>>
delayVars == <<SysTick_VAL, delay_pc, nus, ticks, told, tcnt, elapsed, samples>>

----------------------------------------------------------------------------
\* History of a link since it was last fresh: B a run of bytes moved, I a run
\* of the idle handler, T a run of the timer handler.  Any sequence outside
\* the scenarios I*, B+ I T and B+ I B+ I T is "other"; so is the history of
\* a link whose re-arm (R) has begun.
HistStep(h, e) ==
    CASE e = "B" -> IF h \in {"fresh", "B"} THEN "B"
                    ELSE IF h \in {"BI", "BIB"} THEN "BIB" ELSE "other"
      [] e = "I" -> IF h \in {"fresh", "I"} THEN "I"
                    ELSE IF h = "B" THEN "BI"
                    ELSE IF h = "BIB" THEN "BIBI" ELSE "other"
      [] e = "T" -> IF h = "BI" THEN "BIT"
                    ELSE IF h = "BIBI" THEN "BIBIT" ELSE "other"
      [] e = "R" -> "other"

\* An event of link l while its USART handler is suspended between its
\* length write and its timer restart leaves every scenario.
Record(l, e) ==
    hist' = [hist EXCEPT ![l] = IF usart_isr = l THEN "other"
                                ELSE HistStep(hist[l], e)]

NoTimerPending == \A t \in Timers : ~timer_up[t]

NoUsartPending == \A l \in Links : ~usart_idle[l]

\* Thread-mode code runs only while no handler is pending or active.
ThreadRuns == NoTimerPending /\ NoUsartPending /\ usart_isr = NoLink

----------------------------------------------------------------------------
\* Mutant: *_init leaves out timer_disable and the timers count from the
\* start.
Start_TimerRunning ==
    /\ recv_length = [l \in Links |-> 0]
    /\ recv_complete_flag = [l \in Links |-> 0]
    /\ recv_buff = [l \in Links |-> [i \in 0..Cap |-> 0]]
    /\ usart_idle = [l \in Links |-> FALSE]
    /\ line_busy = [l \in Links |-> TRUE]
    /\ dma_cnt = [c \in DmaChannels |-> Cap]
    /\ dma_ftf = [c \in DmaChannels |-> FALSE]
    /\ dma_chen = [c \in DmaChannels |-> TRUE]
    /\ timer_cen = [t \in Timers |-> TRUE]
    /\ timer_up = [t \in Timers |-> FALSE]
    /\ timer_cnt = [t \in Timers |-> 0]
    /\ final_length = [l \in Links |-> 0]
    /\ since_arm = [t \in Timers |-> 0]
    /\ elapses = [t \in Timers |-> 0]
    /\ fired = [t \in Timers |-> FALSE]
    /\ usart_isr = NoLink
    /\ main_link = NoLink
    /\ main_pc = "poll"
    /\ moved = [l \in Links |-> 0]
    /\ hist = [l \in Links |-> "fresh"]
    /\ events = 0

\* The state in which usart_init, usart_terminal_init and uart4_init leave
\* the links.
Start ==
    /\ recv_length = [l \in Links |-> 0]
    /\ recv_complete_flag = [l \in Links |-> 0]
    /\ recv_buff = [l \in Links |-> [i \in 0..Cap |-> 0]]
    /\ usart_idle = [l \in Links |-> FALSE]
    /\ line_busy = [l \in Links |-> TRUE]
    /\ dma_cnt = [c \in DmaChannels |-> Cap]
    /\ dma_ftf = [c \in DmaChannels |-> FALSE]
    /\ dma_chen = [c \in DmaChannels |-> TRUE]
    /\ timer_cen = [t \in Timers |-> FALSE]
    /\ timer_up = [t \in Timers |-> FALSE]
    /\ timer_cnt = [t \in Timers |-> 0]
    /\ final_length = [l \in Links |-> 0]
    /\ since_arm = [t \in Timers |-> 0]
    /\ elapses = [t \in Timers |-> 0]
    /\ fired = [t \in Timers |-> FALSE]
    /\ usart_isr = NoLink
    /\ main_link = NoLink
    /\ main_pc = "poll"
    /\ moved = [l \in Links |-> 0]
    /\ hist = [l \in Links |-> "fresh"]
    /\ events = 0

\* The ports that have a transmit DMA channel and a *_print_fmt function.
TxPorts == {"USART1", "UART4"}

\* USART_TERMINAL_SEND_LENGTH, UART4_SEND_LENGTH
SEND_LENGTH(p) == SendCap

\* The state in which usart_terminal_init and uart4_init leave the transmit
\* paths: the channel configured with the send capacity and not enabled, the
\* transmit FIFO empty.
TxStart ==
    /\ tx_pc = [p \in TxPorts |-> "idle"]
    /\ tx_cnt = [p \in TxPorts |-> SEND_LENGTH(p)]
    /\ tx_chen = [p \in TxPorts |-> FALSE]
    /\ tx_ftf = [p \in TxPorts |-> FALSE]
    /\ tx_fifo = [p \in TxPorts |-> 0]
    /\ fmt_length = [p \in TxPorts |-> 0]
    /\ fmt_n = [p \in TxPorts |-> 0]
    /\ tx_called = [p \in TxPorts |-> FALSE]

\* The SysTick period in ticks: delay_init loads SysTick->LOAD with
\* fac_us * 1000 - 1, and delay_us adds the 1 back.
Reload == FacUs * UsPerPeriod

\* The state in which delay_init leaves the counter, nobody inside delay_us.
DelayStart ==
    /\ SysTick_VAL = 0
    /\ delay_pc = "idle"
    /\ nus = 0
    /\ ticks = 0
    /\ told = 0
    /\ tcnt = 0
    /\ elapsed = 0
    /\ samples = {}

\* All three links carry traffic.
Init == Start /\ scope = Links /\ TxStart /\ DelayStart

\* One link carries traffic, the other two stay silent.
InitLink == Start /\ (\E l \in Links : scope = {l}) /\ TxStart /\ DelayStart

\* A hardware stimulus on link l is within the bounds of the run.
Admit(l) ==
    /\ l \in scope
    /\ Cardinality(scope) = 1 \/ events < MaxEvents
    /\ events' = IF Cardinality(scope) = 1 THEN events ELSE events + 1
    /\ UNCHANGED scope

----------------------------------------------------------------------------
\* Hardware.

\* Remaining count after one more transfer of a circular channel.
DmaNextCount(cnt, number) == IF cnt = 1 THEN number ELSE cnt - 1

\* The build without DMA (BSP_USART_SUPPORT_DMA 0): the receive interrupt
\* stores each byte at the running index, which it first takes back to 0 when
\* it has reached the capacity, and then increments.
RfneStoreIndex(index, number) == IF index = number THEN 0 ELSE index

RfneNextIndex(index, number) == RfneStoreIndex(index, number) + 1

\* Mutant: the memory address is taken to run with the remaining count.
DmaWriteIndex_Remaining(cnt, number) == cnt

\* Buffer index of a channel's next transfer: the memory address starts at the
\* buffer, increments with every transfer and wraps with the count.
DmaWriteIndex(cnt, number) == number - cnt

\* The receive channel of link l moves one byte into the buffer; the byte is
\* written down as its ordinal since the last re-arm.
DmaTransfer(l) ==
    LET c == RxDmaChannel(l) IN
    /\ Admit(l)
    /\ dma_chen[c]
    /\ moved[l] < MaxMoved
    /\ dma_cnt' = [dma_cnt EXCEPT ![c] = DmaNextCount(dma_cnt[c], RECEIVE_LENGTH(l))]
    /\ dma_ftf' = [dma_ftf EXCEPT ![c] = dma_ftf[c] \/ dma_cnt[c] = 1]
    /\ line_busy' = [line_busy EXCEPT ![l] = TRUE]
    /\ moved' = [moved EXCEPT ![l] = moved[l] + 1]
    /\ recv_buff' = [recv_buff EXCEPT
           ![l][DmaWriteIndex(dma_cnt[c], RECEIVE_LENGTH(l))] = moved[l] + 1]
    /\ Record(l, "B")
    /\ UNCHANGED <<txVars, delayVars>>
    /\ UNCHANGED <<linkVars, dma_chen, timerVars, usart_isr, mainVars,
                   frameVars, armVars>>

\* The idle-line detector of link l raises its interrupt flag: the line went
\* idle after the receiver was enabled or after a byte.
IdleLine(l) ==
    /\ Admit(l)
    /\ line_busy[l]
    /\ line_busy' = [line_busy EXCEPT ![l] = FALSE]
    /\ usart_idle' = [usart_idle EXCEPT ![l] = TRUE]
    /\ UNCHANGED <<txVars, delayVars>>
    /\ UNCHANGED <<recv_length, recv_complete_flag, dmaVars, timerVars,
                   usart_isr, mainVars, moved, hist, buffVars,
                   frameVars, armVars>>

\* One more tick and one more elapse event in the histories, which saturate.
Ticked(n) == IF n < TimerPeriod THEN n + 1 ELSE n
Elapsed(n) == IF n < 2 THEN n + 1 ELSE n

\* The armed timer of link l counts one tick short of its period.
TimerCount(l) ==
    LET t == ConfirmTimer(l) IN
    /\ timer_cen[t]
    /\ timer_cnt[t] < TimerPeriod - 1
    /\ timer_cnt' = [timer_cnt EXCEPT ![t] = timer_cnt[t] + 1]
    /\ since_arm' = [since_arm EXCEPT ![t] = Ticked(since_arm[t])]
    /\ UNCHANGED <<txVars, delayVars>>
    /\ UNCHANGED <<linkVars, dmaVars, timer_cen, timer_up, usart_isr, mainVars,
                   moved, hist, boundVars, lineVars, buffVars, frameVars, elapses,
                   fired>>

\* Mutant: the timers are left in repetitive mode.
SinglePulse_Repetitive(t) == FALSE

\* timer_single_pulse_mode_config(TIMERx, TIMER_SP_MODE_SINGLE)
SinglePulse(t) == TRUE

\* Mutant: the update event raises the interrupt and the counter keeps
\* running.
TimerElapse_FreeRunning(l) ==
    LET t == ConfirmTimer(l) IN
    /\ timer_cen[t]
    /\ timer_cnt[t] = TimerPeriod - 1
    /\ ~timer_up[t]
    /\ timer_cnt' = [timer_cnt EXCEPT ![t] = 0]
    /\ timer_up' = [timer_up EXCEPT ![t] = TRUE]
    /\ since_arm' = [since_arm EXCEPT ![t] = Ticked(since_arm[t])]
    /\ elapses' = [elapses EXCEPT ![t] = Elapsed(elapses[t])]
    /\ fired' = [fired EXCEPT ![t] = TRUE]
    /\ UNCHANGED <<txVars, delayVars>>
    /\ UNCHANGED <<linkVars, dmaVars, timer_cen, usart_isr, mainVars, moved, hist,
                   boundVars, lineVars, buffVars, frameVars>>

\* The armed timer of link l reaches its period: the update interrupt is
\* raised, the counter returns to 0 and, in single pulse mode, stops.
TimerElapse(l) ==
    LET t == ConfirmTimer(l) IN
    /\ timer_cen[t]
    /\ timer_cnt[t] = TimerPeriod - 1
    /\ timer_cnt' = [timer_cnt EXCEPT ![t] = 0]
    /\ timer_cen' = [timer_cen EXCEPT ![t] = ~SinglePulse(t)]
    /\ timer_up' = [timer_up EXCEPT ![t] = TRUE]
    /\ since_arm' = [since_arm EXCEPT ![t] = Ticked(since_arm[t])]
    /\ elapses' = [elapses EXCEPT ![t] = Elapsed(elapses[t])]
    /\ fired' = [fired EXCEPT ![t] = TRUE]
    /\ UNCHANGED <<txVars, delayVars>>
    /\ UNCHANGED <<linkVars, dmaVars, usart_isr, mainVars, moved, hist,
                   boundVars, lineVars, buffVars, frameVars>>

----------------------------------------------------------------------------
\* Interrupt handlers.

\* Mutant: the remaining count is taken for the count of bytes received.
CapacityUsed_Remaining(l) == dma_cnt[RxDmaChannel(l)]

\* RECEIVE_LENGTH - dma_transfer_number_get(channel)
CapacityUsed(l) == RECEIVE_LENGTH(l) - dma_cnt[RxDmaChannel(l)]

\* Mutant: the idle handler never returns early.
IdleIgnored_Never(len, ftf) == FALSE

\* The guard of the idle handler: nothing received and no full transfer.
IdleIgnored(len, ftf) == len = 0 /\ ~ftf

\* Mutant: the handler also restarts the hand-off, as the handler of the
\* build without DMA does.
UsartIRQ_Capture_ClearsFlag(l) ==
    /\ usart_idle[l]
    /\ usart_isr = NoLink
    /\ NoTimerPending
    /\ usart_idle' = [usart_idle EXCEPT ![l] = FALSE]
    /\ recv_length' = [recv_length EXCEPT ![l] = CapacityUsed(l)]
    /\ recv_complete_flag' = [recv_complete_flag EXCEPT ![l] = 0]
    /\ usart_isr' = IF IdleIgnored(CapacityUsed(l), dma_ftf[RxDmaChannel(l)])
                    THEN NoLink ELSE l
    /\ Record(l, "I")
    /\ UNCHANGED <<txVars, delayVars>>
    /\ UNCHANGED <<dmaVars, timerVars, mainVars, moved, boundVars, lineVars,
                   buffVars, frameVars, armVars>>

\* USART handler of link l up to its early return or to the timer restart.
UsartIRQ_Capture(l) ==
    /\ usart_idle[l]
    /\ usart_isr = NoLink
    /\ NoTimerPending
    /\ usart_idle' = [usart_idle EXCEPT ![l] = FALSE]
    /\ recv_length' = [recv_length EXCEPT ![l] = CapacityUsed(l)]
    /\ usart_isr' = IF IdleIgnored(CapacityUsed(l), dma_ftf[RxDmaChannel(l)])
                    THEN NoLink ELSE l
    /\ Record(l, "I")
    /\ UNCHANGED <<txVars, delayVars>>
    /\ UNCHANGED <<recv_complete_flag, dmaVars, timerVars, mainVars, moved,
                   boundVars, lineVars, buffVars,
                   frameVars, armVars>>

\* Mutant: the handler enables the timer without resetting its counter.
ArmCount_Kept(cnt) == cnt

\* timer_counter_value_config(TIMERx, 0)
ArmCount(cnt) == 0

\* USART handler of link l: counter to 0 and timer enable.
UsartIRQ_Arm(l) ==
    LET t == ConfirmTimer(l) IN
    /\ usart_isr = l
    /\ NoTimerPending
    /\ timer_cnt' = [timer_cnt EXCEPT ![t] = ArmCount(timer_cnt[t])]
    /\ timer_cen' = [timer_cen EXCEPT ![t] = TRUE]
    /\ usart_isr' = NoLink
    /\ since_arm' = [since_arm EXCEPT ![t] = 0]
    /\ elapses' = [elapses EXCEPT ![t] = 0]
    /\ UNCHANGED <<txVars, delayVars>>
    /\ UNCHANGED <<linkVars, dmaVars, timer_up, mainVars, moved, hist, boundVars,
                   lineVars, buffVars, frameVars, fired>>

\* Mutant: the timer handler finalizes without comparing.
NotStale_Always(len, used) == TRUE

\* The timer handler's guard: the length captured at the idle event still
\* equals what the channel has moved.
NotStale(len, used) == len = used

\* Mutant: the full-buffer branch reports the size of the buffer array.
FinalLength_ArraySize(len, number) == IF len = 0 THEN number + 1 ELSE len

\* Mutant: finalization without the full-buffer branch.
FinalLength_NoFullCase(len, number) == len

\* The length finalization reports.
FinalLength(len, number) == IF len = 0 THEN number ELSE len

\* Timer handler of link l.
TimerIRQHandler(l) ==
    LET t == ConfirmTimer(l) IN
    /\ timer_up[t]
    /\ timer_up' = [timer_up EXCEPT ![t] = FALSE]
    /\ IF NotStale(recv_length[l], CapacityUsed(l))
       THEN /\ recv_length' = [recv_length EXCEPT
                   ![l] = FinalLength(recv_length[l], RECEIVE_LENGTH(l))]
            /\ recv_buff' = [recv_buff EXCEPT
                   ![l][FinalLength(recv_length[l], RECEIVE_LENGTH(l))] = 0]
            /\ recv_complete_flag' = [recv_complete_flag EXCEPT ![l] = 1]
            /\ final_length' = [final_length EXCEPT
                   ![l] = FinalLength(recv_length[l], RECEIVE_LENGTH(l))]
       ELSE UNCHANGED <<recv_length, recv_buff, recv_complete_flag, final_length>>
    /\ Record(l, "T")
    /\ UNCHANGED <<txVars, delayVars>>
    /\ UNCHANGED <<usart_idle, dmaVars, timer_cen, timer_cnt, usart_isr, mainVars,
                   moved, boundVars, lineVars, armVars>>

----------------------------------------------------------------------------
\* Consumer (thread mode).

\* The consumer calls usart_rx_buffer_print.
RxBufferCall(l) ==
    /\ ThreadRuns
    /\ l = "USART0"
    /\ main_pc = "poll"
    /\ main_pc' = "test"
    /\ UNCHANGED <<txVars, delayVars>>
    /\ UNCHANGED <<linkVars, dmaVars, timerVars, usart_isr, main_link, moved, hist,
                   boundVars, lineVars, buffVars, frameVars, armVars>>

\* Mutant: the consumer prints and re-arms whatever the flag is.
FrameReady_Always(flag) == TRUE

\* if(g_bsp_usart_recv_complete_flag == 1)
FrameReady(flag) == flag = 1

\* usart_rx_buffer_print from the test of the flag up to and including the
\* printf, or to the return when the flag is not set.
RxBufferPrint(l) ==
    /\ ThreadRuns
    /\ l = "USART0"
    /\ main_pc = "test"
    /\ IF FrameReady(recv_complete_flag[l])
       THEN main_link' = l /\ main_pc' = "memset"
       ELSE main_link' = NoLink /\ main_pc' = "poll"
    /\ UNCHANGED <<txVars, delayVars>>
    /\ UNCHANGED <<linkVars, dmaVars, timerVars, usart_isr, moved, hist, boundVars,
                   lineVars, buffVars, frameVars, armVars>>

\* usart_rx_buffer_print: the memset of the buffer.
RxBufferClear(l) ==
    /\ ThreadRuns
    /\ main_link = l /\ main_pc = "memset"
    /\ main_pc' = "disable"
    /\ recv_buff' = [recv_buff EXCEPT
           ![l] = [i \in 0..Cap |-> IF i < RECEIVE_LENGTH(l) THEN 0 ELSE recv_buff[l][i]]]
    /\ UNCHANGED <<txVars, delayVars>>
    /\ UNCHANGED <<linkVars, dmaVars, timerVars, usart_isr, main_link, moved,
                   hist, boundVars, lineVars,
                   frameVars, armVars>>

\* The consumer of the terminal or the module link sees the flag set and
\* calls the link's *_rx_dma_receive_reset.
ConsumerRearm(l) ==
    /\ ThreadRuns
    /\ l \in {"USART1", "UART4"}
    /\ main_pc = "poll"
    /\ recv_complete_flag[l] = 1
    /\ main_link' = l
    /\ main_pc' = "disable"
    /\ UNCHANGED <<txVars, delayVars>>
    /\ UNCHANGED <<linkVars, dmaVars, timerVars, usart_isr, moved, hist, boundVars, lineVars, buffVars,
                   frameVars, armVars>>

\* *_rx_dma_receive_reset, statement 1: dma_channel_disable.
ResetChannelDisable(l) ==
    /\ ThreadRuns
    /\ main_link = l /\ main_pc = "disable"
    /\ dma_chen' = [dma_chen EXCEPT ![RxDmaChannel(l)] = FALSE]
    /\ main_pc' = "length"
    /\ Record(l, "R")
    /\ UNCHANGED <<txVars, delayVars>>
    /\ UNCHANGED <<linkVars, dma_cnt, dma_ftf, timerVars, usart_isr, main_link,
                   moved, boundVars, lineVars, buffVars,
                   frameVars, armVars>>

\* Statement 2: recv_length = 0.
ResetLength(l) ==
    /\ ThreadRuns
    /\ main_link = l /\ main_pc = "length"
    /\ recv_length' = [recv_length EXCEPT ![l] = 0]
    /\ main_pc' = "flag"
    /\ UNCHANGED <<txVars, delayVars>>
    /\ UNCHANGED <<recv_complete_flag, usart_idle, dmaVars, timerVars, usart_isr,
                   main_link, moved, hist, boundVars, lineVars, buffVars,
                   frameVars, armVars>>

\* Statement 3: recv_complete_flag = 0.
ResetFlag(l) ==
    /\ ThreadRuns
    /\ main_link = l /\ main_pc = "flag"
    /\ recv_complete_flag' = [recv_complete_flag EXCEPT ![l] = 0]
    /\ final_length' = [final_length EXCEPT ![l] = 0]
    /\ main_pc' = "intc"
    /\ UNCHANGED <<txVars, delayVars>>
    /\ UNCHANGED <<recv_length, usart_idle, dmaVars, timerVars, usart_isr,
                   main_link, moved, hist, boundVars, lineVars, buffVars, armVars>>

\* Statement 4: clear the channel's flags in DMA_INTC.
ResetIntc(l) ==
    /\ ThreadRuns
    /\ main_link = l /\ main_pc = "intc"
    /\ dma_ftf' = [dma_ftf EXCEPT ![RxDmaChannel(l)] = FALSE]
    /\ main_pc' = "number"
    /\ UNCHANGED <<txVars, delayVars>>
    /\ UNCHANGED <<linkVars, dma_cnt, dma_chen, timerVars, usart_isr, main_link,
                   moved, hist, boundVars, lineVars, buffVars,
                   frameVars, armVars>>

\* Statement 5: dma_transfer_number_config(RECEIVE_LENGTH).
ResetNumber(l) ==
    /\ ThreadRuns
    /\ main_link = l /\ main_pc = "number"
    /\ dma_cnt' = [dma_cnt EXCEPT ![RxDmaChannel(l)] = RECEIVE_LENGTH(l)]
    /\ main_pc' = "enable"
    /\ UNCHANGED <<txVars, delayVars>>
    /\ UNCHANGED <<linkVars, dma_ftf, dma_chen, timerVars, usart_isr, main_link,
                   moved, hist, boundVars, lineVars, buffVars,
                   frameVars, armVars>>

\* A link as C1 describes it after init or re-arm.
Fresh(l) ==
    /\ recv_length[l] = 0
    /\ recv_complete_flag[l] = 0
    /\ ~usart_idle[l]
    /\ dma_cnt[RxDmaChannel(l)] = RECEIVE_LENGTH(l)
    /\ ~dma_ftf[RxDmaChannel(l)]
    /\ ~timer_cen[ConfirmTimer(l)]
    /\ ~timer_up[ConfirmTimer(l)]

\* Statement 6: dma_channel_enable; the re-arm returns.
ResetChannelEnable(l) ==
    /\ ThreadRuns
    /\ main_link = l /\ main_pc = "enable"
    /\ dma_chen' = [dma_chen EXCEPT ![RxDmaChannel(l)] = TRUE]
    /\ main_pc' = "poll"
    /\ main_link' = NoLink
    /\ moved' = [moved EXCEPT ![l] = 0]
    /\ hist' = [hist EXCEPT ![l] = IF Fresh(l) THEN "fresh" ELSE "other"]
    /\ UNCHANGED <<txVars, delayVars>>
    /\ UNCHANGED <<linkVars, dma_cnt, dma_ftf, timerVars, usart_isr, boundVars, lineVars, buffVars,
                   frameVars, armVars>>

----------------------------------------------------------------------------
Next ==
    \E l \in Links :
        \/ DmaTransfer(l)
        \/ IdleLine(l)
        \/ TimerCount(l)
        \/ TimerElapse(l)
        \/ UsartIRQ_Capture(l)
        \/ UsartIRQ_Arm(l)
        \/ TimerIRQHandler(l)
        \/ RxBufferCall(l)
        \/ RxBufferPrint(l)
        \/ RxBufferClear(l)
        \/ ConsumerRearm(l)
        \/ ResetChannelDisable(l)
        \/ ResetLength(l)
        \/ ResetFlag(l)
        \/ ResetIntc(l)
        \/ ResetNumber(l)
        \/ ResetChannelEnable(l)

\* The three links together, for a bounded number of hardware stimuli.
Spec == Init /\ [][Next]_vars

\* One link at a time.
SpecLink == InitLink /\ [][Next]_vars

\* What the hardware and the interrupt controller guarantee: an armed timer
\* keeps counting and reaches its period, a line that carried a byte is
\* detected idle, and a pending handler runs.  The consumer and the sender
\* are under no obligation.
Fairness ==
    \A l \in Links :
        /\ WF_vars(TimerCount(l))
        /\ WF_vars(TimerElapse(l))
        /\ WF_vars(IdleLine(l))
        /\ WF_vars(TimerIRQHandler(l))
        /\ WF_vars(UsartIRQ_Capture(l))
        /\ WF_vars(UsartIRQ_Arm(l))

\* One link at a time, hardware and handlers making progress.
SpecLive == InitLink /\ [][Next]_vars /\ Fairness

----------------------------------------------------------------------------
\* Transmit paths: usart_terminal_print_fmt (USART1, DMA_CH3) and
\* uart4_print_fmt (UART4, DMA_CH5).  The function is called from thread
\* mode; the transmit channel and the USART act at any time.

rxVars == <<linkVars, lineVars, buffVars, frameVars, armVars, dmaVars, timerVars,
            usart_isr, mainVars, moved, hist, boundVars>>

\* The assignment of an int to the uint16_t fmt_length.
ToUint16(n) == n % (2 ^ FmtLengthBits)

\* fmt_length = (fmt_length > SEND_LENGTH) ? SEND_LENGTH : fmt_length
FmtClamp(len, cap) == IF len > cap THEN cap ELSE len

\* What vsnprintf may return: the length of the formatted message, whatever
\* the size of the buffer, or a negative value on an error.
VsnprintfResults(cap) ==
    (-1 .. cap + 1) \cup
    {2 ^ FmtLengthBits - 1, 2 ^ FmtLengthBits, 2 ^ FmtLengthBits + 1,
     2 ^ FmtLengthBits + cap + 1}

\* USART_FLAG_TFE: the transmit FIFO is empty.
TxFifoEmpty(p) == tx_fifo[p] = 0

\* A caller enters *_print_fmt of port p.
PrintFmtCall(p) ==
    /\ p \in scope
    /\ tx_pc[p] = "idle"
    /\ tx_pc' = [tx_pc EXCEPT ![p] = "wait"]
    /\ UNCHANGED <<tx_cnt, tx_chen, tx_ftf, tx_fifo, fmt_length, fmt_n, tx_called>>
    /\ UNCHANGED <<rxVars, delayVars>>

\* while(usart_flag_get(USARTx, USART_FLAG_TFE) == RESET);
PrintFmtWait(p) ==
    /\ tx_pc[p] = "wait"
    /\ TxFifoEmpty(p)
    /\ tx_pc' = [tx_pc EXCEPT ![p] = "disable"]
    /\ UNCHANGED <<tx_cnt, tx_chen, tx_ftf, tx_fifo, fmt_length, fmt_n, tx_called>>
    /\ UNCHANGED <<rxVars, delayVars>>

\* dma_channel_disable(DMA0, channel)
PrintFmtDisable(p) ==
    /\ tx_pc[p] = "disable"
    /\ tx_chen' = [tx_chen EXCEPT ![p] = FALSE]
    /\ tx_pc' = [tx_pc EXCEPT ![p] = "format"]
    /\ UNCHANGED <<tx_cnt, tx_ftf, tx_fifo, fmt_length, fmt_n, tx_called>>
    /\ UNCHANGED <<rxVars, delayVars>>

\* vsnprintf formats the message into the send buffer and its result is
\* stored in fmt_length and clamped.
PrintFmtFormat(p) ==
    /\ tx_pc[p] = "format"
    /\ \E n \in VsnprintfResults(SEND_LENGTH(p)) :
           /\ fmt_n' = [fmt_n EXCEPT ![p] = n]
           /\ fmt_length' = [fmt_length EXCEPT
                  ![p] = FmtClamp(ToUint16(n), SEND_LENGTH(p))]
    /\ tx_pc' = [tx_pc EXCEPT ![p] = "intc"]
    /\ UNCHANGED <<tx_cnt, tx_chen, tx_ftf, tx_fifo, tx_called>>
    /\ UNCHANGED <<rxVars, delayVars>>

\* DMA_INTCx(DMA0) |= DMA_FLAG_ADD(DMA_CHINTF_RESET_VALUE, channel)
PrintFmtIntc(p) ==
    /\ tx_pc[p] = "intc"
    /\ tx_ftf' = [tx_ftf EXCEPT ![p] = FALSE]
    /\ tx_pc' = [tx_pc EXCEPT ![p] = "number"]
    /\ UNCHANGED <<tx_cnt, tx_chen, tx_fifo, fmt_length, fmt_n, tx_called>>
    /\ UNCHANGED <<rxVars, delayVars>>

\* dma_transfer_number_config(DMA0, channel, fmt_length)
PrintFmtNumber(p) ==
    /\ tx_pc[p] = "number"
    /\ tx_cnt' = [tx_cnt EXCEPT ![p] = fmt_length[p]]
    /\ tx_pc' = [tx_pc EXCEPT ![p] = "enable"]
    /\ UNCHANGED <<tx_chen, tx_ftf, tx_fifo, fmt_length, fmt_n, tx_called>>
    /\ UNCHANGED <<rxVars, delayVars>>

\* dma_channel_enable(DMA0, channel), and the function returns.
PrintFmtEnable(p) ==
    /\ tx_pc[p] = "enable"
    /\ tx_chen' = [tx_chen EXCEPT ![p] = TRUE]
    /\ tx_called' = [tx_called EXCEPT ![p] = TRUE]
    /\ tx_pc' = [tx_pc EXCEPT ![p] = "idle"]
    /\ UNCHANGED <<tx_cnt, tx_ftf, tx_fifo, fmt_length, fmt_n>>
    /\ UNCHANGED <<rxVars, delayVars>>

\* The enabled transmit channel moves one byte of the send buffer into the
\* transmit FIFO, which has room; the channel is not circular and stops with
\* the last byte.
TxDmaTransfer(p) ==
    /\ tx_chen[p]
    /\ tx_cnt[p] > 0
    /\ tx_fifo[p] < TxFifoDepth
    /\ tx_cnt' = [tx_cnt EXCEPT ![p] = tx_cnt[p] - 1]
    /\ tx_fifo' = [tx_fifo EXCEPT ![p] = tx_fifo[p] + 1]
    /\ tx_ftf' = [tx_ftf EXCEPT ![p] = tx_ftf[p] \/ tx_cnt[p] = 1]
    /\ tx_chen' = [tx_chen EXCEPT ![p] = tx_cnt[p] > 1]
    /\ UNCHANGED <<tx_pc, fmt_length, fmt_n, tx_called>>
    /\ UNCHANGED <<rxVars, delayVars>>

\* The transmitter takes one frame out of the transmit FIFO.
TxShift(p) ==
    /\ tx_fifo[p] > 0
    /\ tx_fifo' = [tx_fifo EXCEPT ![p] = tx_fifo[p] - 1]
    /\ UNCHANGED <<tx_pc, tx_cnt, tx_chen, tx_ftf, fmt_length, fmt_n, tx_called>>
    /\ UNCHANGED <<rxVars, delayVars>>

NextTx ==
    \E p \in TxPorts :
        \/ PrintFmtCall(p)
        \/ PrintFmtWait(p)
        \/ PrintFmtDisable(p)
        \/ PrintFmtFormat(p)
        \/ PrintFmtIntc(p)
        \/ PrintFmtNumber(p)
        \/ PrintFmtEnable(p)
        \/ TxDmaTransfer(p)
        \/ TxShift(p)

\* One port prints, the receive paths stay as initialised.
InitTx == Start /\ (\E p \in TxPorts : scope = {p}) /\ TxStart /\ DelayStart

SpecTx == InitTx /\ [][NextTx]_vars

----------------------------------------------------------------------------
\* delay_us: a busy wait on the SysTick down-counter, which delay_init clocks
\* with the system clock and reloads every fac_us * 1000 ticks.

\* The assignment to a uint32_t.
ToUint32(n) == n % WordRange

\* The down-counter d ticks after it read val: it counts to 0 and restarts
\* from the reload value.
SysTickAfter(val, d) == (val - d) % Reload

\* Most ticks that pass between two statements of delay_us in this model;
\* one more than a whole period.
MaxGap == Reload + 1

\* Ticks that pass between two reads of the counter: the counter runs on the
\* clock of the processor (SYSTICK_CLKSOURCE_CKSYS), so at least one, and
\* interrupts make it any number.
Gaps == 1 .. MaxGap

\* Most ticks a call is followed for.
MaxElapsed == WordRange + 2 * Reload

\* The arguments tried: the documented range 0 .. 2^32 / fac_us and a few
\* beyond it.
NusValues == 0 .. (WordRange \div FacUs) + 1

\* ticks = nus * fac_us
DelayTicks(n) == ToUint32(n * FacUs)

\* Mutant: the wrap of the counter is not told from a plain decrease.
DelayDelta_NoWrap(old, now, reload) == old - now

\* (tnow < told) ? (told - tnow) : (reload - tnow + told)
DelayDelta(old, now, reload) ==
    IF now < old THEN old - now ELSE reload - now + old

\* How a sample lies to the one before it.
SampleKind(old, now) ==
    IF now < old THEN "down" ELSE IF now = old THEN "same" ELSE "wrap"

\* delay_us(n) is entered, at any phase of the counter, and computes ticks.
DelayUsCall ==
    /\ delay_pc = "idle"
    /\ \E n \in NusValues :
           /\ nus' = n
           /\ ticks' = DelayTicks(n)
    /\ SysTick_VAL' \in 0 .. Reload - 1
    /\ told' = 0
    /\ tcnt' = 0
    /\ elapsed' = 0
    /\ samples' = {}
    /\ delay_pc' = "told"
    /\ UNCHANGED <<rxVars, txVars>>

\* told = SysTick->VAL
DelayReadTold ==
    /\ delay_pc = "told"
    /\ \E d \in Gaps :
           /\ SysTick_VAL' = SysTickAfter(SysTick_VAL, d)
           /\ told' = SysTickAfter(SysTick_VAL, d)
           /\ elapsed' = elapsed + d
    /\ delay_pc' = "loop"
    /\ UNCHANGED <<nus, ticks, tcnt, samples>>
    /\ UNCHANGED <<rxVars, txVars>>

\* One turn of the loop: the counter is read, the difference to the last
\* sample is added to tcnt and the loop ends when tcnt has reached ticks.
DelaySample ==
    /\ delay_pc = "loop"
    /\ \E d \in Gaps :
           LET tnow == SysTickAfter(SysTick_VAL, d)
               sum == ToUint32(tcnt + DelayDelta(told, tnow, Reload))
           IN  /\ elapsed + d <= MaxElapsed
               /\ SysTick_VAL' = tnow
               /\ told' = tnow
               /\ tcnt' = sum
               /\ elapsed' = elapsed + d
               /\ samples' = samples \cup {SampleKind(told, tnow)}
               /\ delay_pc' = IF sum >= ticks THEN "done" ELSE "loop"
    /\ UNCHANGED <<nus, ticks>>
    /\ UNCHANGED <<rxVars, txVars>>

\* delay_us returns.
DelayReturn ==
    /\ delay_pc = "done"
    /\ delay_pc' = "idle"
    /\ UNCHANGED <<SysTick_VAL, nus, ticks, told, tcnt, elapsed, samples>>
    /\ UNCHANGED <<rxVars, txVars>>

NextDelay ==
    \/ DelayUsCall
    \/ DelayReadTold
    \/ DelaySample
    \/ DelayReturn

\* Nothing but delay_us runs.
InitDelay == Start /\ scope = {} /\ TxStart /\ DelayStart

SpecDelay == InitDelay /\ [][NextDelay]_vars

----------------------------------------------------------------------------
\* Claims.

\* C1: on a link that was fresh (flag clear, length 0, remaining count C,
\* full-transfer flag clear, timer stopped), once exactly k bytes were moved
\* (0 < k <= C), the idle handler ran and the timer handler ran, with nothing
\* else on the link in between, the completion flag is set and the received
\* length is k.
C1_ExactFrame ==
    \A l \in Links :
        (hist[l] = "BIT" /\ moved[l] \in 1..RECEIVE_LENGTH(l))
            => (recv_complete_flag[l] = 1 /\ recv_length[l] = moved[l])

C1_Witness ==
    \E l \in Links :
        /\ hist[l] = "BIT"
        /\ moved[l] \in 1..(RECEIVE_LENGTH(l) - 1)
        /\ recv_complete_flag[l] = 1

\* C2: when exactly C bytes were moved on a fresh link, the remaining count
\* reads C again and the full-transfer flag is set; the idle handler then
\* captures length 0, still arms the timer, and finalization reports length C
\* with the completion flag set.
C2_FullBuffer ==
    \A l \in Links :
        moved[l] = RECEIVE_LENGTH(l) =>
            /\ hist[l] \in {"B", "BI", "BIT"} =>
                   (CapacityUsed(l) = 0 /\ dma_ftf[RxDmaChannel(l)])
            /\ hist[l] = "BI" =>
                   /\ recv_length[l] = 0
                   /\ \/ usart_isr = l
                      \/ timer_cen[ConfirmTimer(l)]
                      \/ timer_up[ConfirmTimer(l)]
            /\ hist[l] = "BIT" =>
                   (recv_length[l] = RECEIVE_LENGTH(l) /\ recv_complete_flag[l] = 1)

C2_Witness ==
    \E l \in Links :
        /\ hist[l] = "BIT"
        /\ moved[l] = RECEIVE_LENGTH(l)
        /\ CapacityUsed(l) = 0
        /\ recv_length[l] = RECEIVE_LENGTH(l)

\* C3: on a fresh link on which no byte was moved, idle-line events never set
\* the completion flag: the idle handler returns without arming the timer.
C3_EmptyIdleIgnored ==
    \A l \in Links :
        hist[l] = "I" =>
            /\ recv_complete_flag[l] = 0
            /\ recv_length[l] = 0
            /\ usart_isr # l
            /\ ~timer_cen[ConfirmTimer(l)]
            /\ ~timer_up[ConfirmTimer(l)]

C3_Witness ==
    \E l \in Links : hist[l] = "I" /\ moved[l] = 0 /\ ~usart_idle[l]

RearmReturns(l) == main_link = l /\ main_pc = "enable" /\ main_pc' = "poll"

\* C5: after the consumer's re-arm has returned, the completion flag is clear
\* and stays clear until a new burst of bytes has arrived and been finalized,
\* whenever the re-arm ran relative to earlier idle and timer events.
C5_ClearUntilNewBurst ==
    \A l \in Links :
        (moved[l] = 0 /\ main_link # l) => recv_complete_flag[l] = 0

\* C6: when a re-arm returns, the link's confirmation timer is stopped,
\* whatever state it was in when the re-arm started.
C6_RearmStopsTimer ==
    [][\A l \in Links : RearmReturns(l) => ~timer_cen'[ConfirmTimer(l)]]_vars

\* C7: when a re-arm returns, the received length is 0, the completion flag is
\* 0, the remaining count is C, the full-transfer flag is clear and the channel
\* is enabled; the channel is disabled from the first statement of the re-arm
\* to its last.
C7_RearmPostcondition ==
    [][\A l \in Links :
          /\ (main_link' = l /\ main_pc' \in {"length", "flag", "intc", "number", "enable"})
                 => ~dma_chen'[RxDmaChannel(l)]
          /\ RearmReturns(l) =>
                 /\ recv_length'[l] = 0
                 /\ recv_complete_flag'[l] = 0
                 /\ dma_cnt'[RxDmaChannel(l)] = RECEIVE_LENGTH(l)
                 /\ ~dma_ftf'[RxDmaChannel(l)]
                 /\ dma_chen'[RxDmaChannel(l)]]_vars

\* What C8 names of a link: length, flag, timer state, remaining count and
\* full-transfer flag.
LinkState(m) ==
    <<recv_length[m], recv_complete_flag[m],
      timer_cen[ConfirmTimer(m)], timer_up[ConfirmTimer(m)],
      dma_cnt[RxDmaChannel(m)], dma_ftf[RxDmaChannel(m)]>>

\* Any step of link l: byte arrival, idle detection, timer elapse, a handler,
\* a statement of the consumer's drain and re-arm.
OnLink(l) ==
    \/ DmaTransfer(l)
    \/ IdleLine(l)
    \/ TimerCount(l)
    \/ TimerElapse(l)
    \/ UsartIRQ_Capture(l)
    \/ UsartIRQ_Arm(l)
    \/ TimerIRQHandler(l)
    \/ RxBufferCall(l)
    \/ RxBufferPrint(l)
    \/ RxBufferClear(l)
    \/ ConsumerRearm(l)
    \/ ResetChannelDisable(l)
    \/ ResetLength(l)
    \/ ResetFlag(l)
    \/ ResetIntc(l)
    \/ ResetNumber(l)
    \/ ResetChannelEnable(l)

\* C8: a step of one link leaves the received length, completion flag, timer
\* state, remaining count and full-transfer flag of the other two unchanged.
C8_LinksIndependent ==
    [][\A l \in Links :
          OnLink(l) => \A m \in Links \ {l} : LinkState(m)' = LinkState(m)]_vars

\* One link holds a finalized frame while another is debouncing.
C8_Witness ==
    \E l \in Links : \E m \in Links \ {l} :
        /\ recv_complete_flag[l] = 1
        /\ recv_length[l] = moved[l]
        /\ timer_cen[ConfirmTimer(m)]
        /\ recv_length[m] = moved[m]
        /\ moved[m] > 0
        /\ recv_complete_flag[m] = 0

\* C9: the timer handler never executes its finalization (flag = 1) while the
\* flag is still set: once per frame, and not again before the consumer's
\* re-arm has cleared it.
C9_FinalizeOncePerFrame ==
    [][\A l \in Links :
          (TimerIRQHandler(l) /\ NotStale(recv_length[l], CapacityUsed(l)))
              => recv_complete_flag[l] = 0]_vars

\* C10: while the completion flag is set, the received length keeps the value
\* finalization stored: only finalization and the re-arm write it.
C10_LengthStableWhileSet ==
    [][\A l \in Links :
          (recv_complete_flag[l] = 1 /\ ~TimerIRQHandler(l) /\ ~ResetLength(l))
              => recv_length'[l] = recv_length[l]]_vars

\* C11: on a fresh link, a burst of more than C bytes without a gap, then the
\* idle handler and the timer handler, ends with the completion flag set and
\* the received length equal to C.
C11_OverrunTruncates ==
    \A l \in Links :
        (hist[l] = "BIT" /\ moved[l] > RECEIVE_LENGTH(l))
            => (recv_complete_flag[l] = 1 /\ recv_length[l] = RECEIVE_LENGTH(l))

\* C12: when a frame has been finalized, the consumer has not begun to re-arm
\* and the first byte of the next frame arrives (a byte after an idle line),
\* that byte is stored at index 0 of the buffer.
C12_OverwriteFromOrigin ==
    [][\A l \in Links :
          (DmaTransfer(l) /\ recv_complete_flag[l] = 1 /\ ~line_busy[l]
             /\ main_link # l)
              => recv_buff'[l][0] = moved'[l]]_vars

\* C13: within one link the idle-line handler and the timer handler never
\* interleave: the timer handler never starts while the idle-line handler
\* stands between its write of the length and its restart of the timer.  (The
\* idle-line handler never starts inside the timer handler: that handler is
\* one step here, being of the higher priority.)
C13_HandlersSerialized ==
    [][\A l \in Links : TimerIRQHandler(l) => usart_isr # l]_vars

\* The consumer stands between the first and the last statement of the
\* re-arm of link l.
InRearm(l) ==
    main_link = l /\ main_pc \in {"length", "flag", "intc", "number", "enable"}

\* C14: no idle-line handler and no timer handler of a link runs between the
\* channel disable and the channel enable of that link's re-arm.
C14_RearmAtomic ==
    [][\A l \in Links :
          (UsartIRQ_Capture(l) \/ UsartIRQ_Arm(l) \/ TimerIRQHandler(l))
              => ~InRearm(l)]_vars

\* C15: whenever the consumer can observe the completion flag set (thread mode
\* runs, no re-arm of the link is under way), the received length is the
\* length finalization stored and the buffer holds the terminator at that
\* index.
C15_HandOffOrdering ==
    \A l \in Links :
        (recv_complete_flag[l] = 1 /\ ThreadRuns /\ main_link # l)
            => /\ recv_length[l] = final_length[l]
               /\ recv_buff[l][recv_length[l]] = 0

\* C16: the completion flag goes from set to clear only in the flag statement
\* of the consumer's re-arm: no idle-line handler, timer handler or hardware
\* event clears it.
C16_ClearedOnlyByRearm ==
    [][\A l \in Links :
          (recv_complete_flag[l] = 1 /\ recv_complete_flag'[l] = 0)
              => ResetFlag(l)]_vars

\* A re-arm has cleared the flag of a link whose idle handler ran while the
\* flag was set.
C16_Witness ==
    \E l \in Links :
        /\ main_link = l /\ main_pc = "intc"
        /\ recv_complete_flag[l] = 0
        /\ moved[l] > 1
        /\ timer_cen[ConfirmTimer(l)]

\* The completion flag is set only by the timer handler.
SetOnlyByElapse ==
    \A l \in Links :
        (recv_complete_flag[l] = 0 /\ recv_complete_flag'[l] = 1)
            => TimerIRQHandler(l)

\* Every elapse event comes a full period after the handler last restarted
\* the timer.
FullIntervalSinceArm ==
    \A l \in Links :
        TimerElapse(l) => since_arm'[ConfirmTimer(l)] = TimerPeriod

\* An idle-line event that is being handled while the timer is armed gets no
\* elapse event from the earlier arm: the timer elapses only after the handler
\* has restarted it.
NoElapseOfEarlierArm ==
    \A l \in Links : TimerElapse(l) => usart_isr # l

\* C17: the flag is set only by a timer elapse; every elapse comes a full
\* interval T after the most recent restart of the timer by an idle-line
\* event; and an idle-line event taken while the timer is armed postpones the
\* elapse, the earlier arm producing no elapse event of its own.
C17_DebounceWindow ==
    [][SetOnlyByElapse /\ FullIntervalSinceArm /\ NoElapseOfEarlierArm]_vars

\* C18: the confirmation timer is single-shot.  An elapse event stops the
\* timer; a stopped timer is started only by the idle-line handler; the timer
\* handler leaves the timer as it is, whether it finalizes or not; and no
\* restart of the timer is followed by two elapse events.
C18_SingleShot ==
    [][\A l \in Links :
          LET t == ConfirmTimer(l) IN
          /\ TimerElapse(l) => ~timer_cen'[t]
          /\ (~timer_cen[t] /\ timer_cen'[t]) => UsartIRQ_Arm(l)
          /\ TimerIRQHandler(l) => timer_cen'[t] = timer_cen[t]
          /\ elapses'[t] <= 1]_vars

\* A timer has elapsed once since it was armed and is stopped, its handler
\* having found the captured length stale and finalized nothing.
C18_Witness ==
    \E l \in Links :
        /\ elapses[ConfirmTimer(l)] = 1
        /\ ~timer_cen[ConfirmTimer(l)]
        /\ ~timer_up[ConfirmTimer(l)]
        /\ recv_complete_flag[l] = 0
        /\ recv_length[l] # CapacityUsed(l)
        /\ main_link # l

\* C19: once a link's timer is armed, the link eventually has its completion
\* flag set or has its idle-line handler about to restart the timer: no armed
\* timer elapses into a link left with the timer stopped and the flag clear.
C19_DebounceLive ==
    \A l \in Links :
        timer_cen[ConfirmTimer(l)]
            ~> (recv_complete_flag[l] = 1 \/ usart_isr = l)

\* C20: in every state with the completion flag set, outside a re-arm of the
\* link, the received length lies in 1..C.
C20_NoEmptyFrame ==
    \A l \in Links :
        (recv_complete_flag[l] = 1 /\ main_link # l)
            => recv_length[l] \in 1..RECEIVE_LENGTH(l)

\* C21: a finalization reports the length C only when the channel's
\* full-transfer flag is set at that moment: a captured length of 0 with the
\* flag clear is never turned into a frame of C bytes.
C21_FullOnlyWithTransferFlag ==
    [][\A l \in Links :
          (TimerIRQHandler(l) /\ NotStale(recv_length[l], CapacityUsed(l))
             /\ recv_length'[l] = RECEIVE_LENGTH(l))
              => dma_ftf[RxDmaChannel(l)]]_vars

\* A step of link l other than its idle-line handler's restart, a tick and
\* the elapse: byte arrival, idle detection, the handlers' other parts, the
\* consumer's print, buffer clear and re-arm.
NotTimerEvent(l) ==
    \/ DmaTransfer(l)
    \/ IdleLine(l)
    \/ UsartIRQ_Capture(l)
    \/ TimerIRQHandler(l)
    \/ RxBufferCall(l)
    \/ RxBufferPrint(l)
    \/ RxBufferClear(l)
    \/ ConsumerRearm(l)
    \/ ResetChannelDisable(l)
    \/ ResetLength(l)
    \/ ResetFlag(l)
    \/ ResetIntc(l)
    \/ ResetNumber(l)
    \/ ResetChannelEnable(l)

\* C22: a link's timer changes between stopped and armed only in the
\* idle-line handler, which leaves it armed with its count at 0, and in the
\* elapse, which takes it from armed to stopped; byte arrival, the timer
\* handler's finalization, the consumer's print and the re-arm leave the
\* timer's enable and count as they are.
C22_TimerOwnedByIdleAndElapse ==
    [][\A l \in Links :
          LET t == ConfirmTimer(l) IN
          /\ timer_cen'[t] # timer_cen[t] => (UsartIRQ_Arm(l) \/ TimerElapse(l))
          /\ UsartIRQ_Arm(l) => (timer_cen'[t] /\ timer_cnt'[t] = 0)
          /\ TimerElapse(l) => (timer_cen[t] /\ ~timer_cen'[t])
          /\ NotTimerEvent(l) =>
                 (timer_cen'[t] = timer_cen[t] /\ timer_cnt'[t] = timer_cnt[t])]_vars

\* A re-arm is under way on a link whose timer is armed and has counted.
C22_Witness ==
    \E l \in Links :
        /\ main_link = l /\ main_pc = "number"
        /\ timer_cen[ConfirmTimer(l)]
        /\ timer_cnt[ConfirmTimer(l)] > 0

\* A statement of the consumer that writes the buffer, the length, the flag
\* or the channel of link l: the buffer clear and the six statements of the
\* re-arm.
ConsumerMutates(l) ==
    \/ RxBufferClear(l)
    \/ ResetChannelDisable(l)
    \/ ResetLength(l)
    \/ ResetFlag(l)
    \/ ResetIntc(l)
    \/ ResetNumber(l)
    \/ ResetChannelEnable(l)

\* C23: the consumer's buffer clear and re-arm never execute while the link's
\* confirmation timer is armed, that is while a finalization is in flight.
C23_NoMutationWhileDebouncing ==
    [][\A l \in Links :
          ConsumerMutates(l) => ~timer_cen[ConfirmTimer(l)]]_vars

\* C24: usart_rx_buffer_print reads the buffer and the length only when the
\* completion flag is set: a call that finds the flag clear returns at once
\* and leaves the buffer, the length, the flag, the channel's count, flags
\* and enable as they are; the consumer gets to its print only from a set
\* flag.
C24_ReadsOnlyWhenFlagSet ==
    [][\A l \in Links :
          /\ (RxBufferPrint(l) /\ recv_complete_flag[l] # 1) =>
                 /\ main_pc' = "poll"
                 /\ main_link' = NoLink
                 /\ UNCHANGED <<recv_buff, recv_length, recv_complete_flag,
                                dma_cnt, dma_ftf, dma_chen>>
          /\ (RxBufferPrint(l) /\ main_pc' = "memset") =>
                 recv_complete_flag[l] = 1]_vars

\* The function was called on a link that holds received bytes whose flag is
\* not set.
C24_Witness ==
    /\ main_pc = "test"
    /\ recv_complete_flag["USART0"] = 0
    /\ moved["USART0"] > 0
    /\ recv_length["USART0"] > 0

\* Whatever the channel's remaining count reads (0..C), the captured length
\* and the length finalization makes of it lie in 0..C.
LengthInRange ==
    \A l \in Links : \A remaining \in 0..RECEIVE_LENGTH(l) :
        LET used == RECEIVE_LENGTH(l) - remaining IN
        /\ used \in 0..RECEIVE_LENGTH(l)
        /\ FinalLength(used, RECEIVE_LENGTH(l)) \in 0..RECEIVE_LENGTH(l)

\* C25: the received length lies in 0..C in every reachable state, and a
\* finalization stores the terminator at the index equal to the length it
\* reports, an index of the buffer's C + 1 cells.
C25_LengthAndTerminatorInBuffer ==
    /\ [](LengthInRange /\ \A l \in Links : recv_length[l] \in 0..RECEIVE_LENGTH(l))
    /\ [][\A l \in Links :
            (TimerIRQHandler(l) /\ NotStale(recv_length[l], CapacityUsed(l))) =>
                /\ recv_length'[l] \in DOMAIN recv_buff[l]
                /\ recv_buff'[l][recv_length'[l]] = 0]_vars

\* A full buffer was finalized: every cell below C holds a byte and the
\* terminator sits in the last cell, index C.
C25_Witness ==
    \E l \in Links :
        /\ recv_complete_flag[l] = 1
        /\ recv_length[l] = RECEIVE_LENGTH(l)
        /\ final_length[l] = RECEIVE_LENGTH(l)
        /\ \A i \in 0..(RECEIVE_LENGTH(l) - 1) : recv_buff[l][i] # 0
        /\ recv_buff[l][RECEIVE_LENGTH(l)] = 0

\* C26: there is no maximum frame duration.  Every elapse needs a full period
\* after the most recent restart of the timer, so idle-line events that keep
\* restarting it keep it from elapsing; and as long as the timer has not
\* elapsed the completion flag is clear, however many bytes were moved.
C26_NoMaximumDuration ==
    /\ [](\A l \in Links : ~fired[ConfirmTimer(l)] => recv_complete_flag[l] = 0)
    /\ [][\A l \in Links :
            /\ UsartIRQ_Arm(l) => since_arm'[ConfirmTimer(l)] = 0
            /\ TimerElapse(l) =>
                   since_arm[ConfirmTimer(l)] = TimerPeriod - 1]_vars

\* Sustained chatter: more bytes than the buffer holds, idle-line events
\* beyond the second, the timer restarted while it had already counted, no
\* elapse so far and the flag clear.
C26_Witness ==
    \E l \in Links :
        /\ ~fired[ConfirmTimer(l)]
        /\ moved[l] > RECEIVE_LENGTH(l)
        /\ hist[l] = "other"
        /\ timer_cen[ConfirmTimer(l)]
        /\ timer_cnt[ConfirmTimer(l)] = 0
        /\ since_arm[ConfirmTimer(l)] = 0
        /\ recv_complete_flag[l] = 0

\* The receive interrupt of the build without DMA keeps its index in 0..C
\* (it starts at 0 and the consumer takes it back to 0) and stores within
\* 0..C-1.
RfneIndexInBuffer ==
    \A l \in Links : \A index \in 0..RECEIVE_LENGTH(l) :
        /\ RfneStoreIndex(index, RECEIVE_LENGTH(l)) \in 0..(RECEIVE_LENGTH(l) - 1)
        /\ RfneNextIndex(index, RECEIVE_LENGTH(l)) \in 0..RECEIVE_LENGTH(l)

\* C27: the transport stores the next byte at an index in 0..C-1.  The
\* circular channel's remaining count is always in 1..C (it is reloaded with
\* C when the last transfer is made), every transfer writes the cell at
\* C - remaining and leaves cell C alone; the byte-interrupt build takes its
\* index back to 0 before it would store at C.
C27_WriteIndexInBuffer ==
    /\ [](RfneIndexInBuffer
          /\ \A l \in Links : dma_cnt[RxDmaChannel(l)] \in 1..RECEIVE_LENGTH(l))
    /\ [][\A l \in Links :
            LET index == DmaWriteIndex(dma_cnt[RxDmaChannel(l)], RECEIVE_LENGTH(l)) IN
            DmaTransfer(l) =>
                /\ index \in 0..(RECEIVE_LENGTH(l) - 1)
                /\ recv_buff'[l][index] = moved'[l]
                /\ recv_buff'[l][RECEIVE_LENGTH(l)] = recv_buff[l][RECEIVE_LENGTH(l)]]_vars

\* The channel has wrapped: byte C + 1 of the burst lies in cell 0 and the
\* last cell below C still holds byte C.
C27_Witness ==
    \E l \in Links :
        /\ moved[l] = RECEIVE_LENGTH(l) + 1
        /\ recv_buff[l][0] = RECEIVE_LENGTH(l) + 1
        /\ recv_buff[l][RECEIVE_LENGTH(l) - 1] = RECEIVE_LENGTH(l)
        /\ dma_ftf[RxDmaChannel(l)]

\* No byte has arrived on link l since initialisation (a re-arm, which also
\* takes the byte count back to 0, needs a flag and so an elapse before it).
BeforeFirstByte(l) == moved[l] = 0 /\ ~fired[ConfirmTimer(l)]

\* C28: from the return of the link's init function until the first byte
\* arrives, the completion flag is 0, the length 0, the remaining count C, the
\* channel enabled and the timer stopped with no elapse pending, whatever
\* idle-line events occur; the timer does not elapse on a link on which
\* nothing but empty idle-line events has happened.
C28_CreatedIdle ==
    /\ [](\A l \in Links :
            BeforeFirstByte(l) =>
                /\ recv_complete_flag[l] = 0
                /\ recv_length[l] = 0
                /\ dma_cnt[RxDmaChannel(l)] = RECEIVE_LENGTH(l)
                /\ dma_chen[RxDmaChannel(l)]
                /\ ~dma_ftf[RxDmaChannel(l)]
                /\ ~timer_cen[ConfirmTimer(l)]
                /\ ~timer_up[ConfirmTimer(l)])
    /\ [][\A l \in Links :
            TimerElapse(l) => hist[l] \notin {"fresh", "I"}]_vars

\* A freshly created link whose idle-line interrupt has been raised before
\* any byte arrived and is about to be handled.
C28_Witness ==
    \E l \in Links :
        /\ BeforeFirstByte(l)
        /\ usart_idle[l]
        /\ hist[l] = "fresh"
        /\ main_pc = "poll"

\* C29: when the timer handler runs and the channel's count C - remaining
\* differs from the length the idle-line handler captured, the handler sets
\* no flag, writes no terminator and leaves the length as it is.
C29_StaleArmGuard ==
    [][\A l \in Links :
          (TimerIRQHandler(l) /\ recv_length[l] # CapacityUsed(l)) =>
              /\ recv_complete_flag'[l] = recv_complete_flag[l]
              /\ recv_buff'[l] = recv_buff[l]
              /\ recv_length'[l] = recv_length[l]]_vars

\* A byte was moved after the idle-line handler captured the length; the
\* timer has elapsed and its handler has run: the flag is clear and the cell
\* at the captured length holds that byte, not a terminator.
C29_Witness ==
    \E l \in Links :
        /\ fired[ConfirmTimer(l)]
        /\ elapses[ConfirmTimer(l)] = 1
        /\ ~timer_up[ConfirmTimer(l)]
        /\ recv_complete_flag[l] = 0
        /\ moved[l] = recv_length[l] + 1
        /\ recv_buff[l][recv_length[l]] = moved[l]
        /\ main_link # l

\* Bytes the channel of link l has moved since its count was last loaded, by
\* the init function or by the re-arm (whose last statement moves none).
MovedSinceLoad(l) ==
    IF main_link = l /\ main_pc = "enable" THEN 0 ELSE moved[l]

\* n modulo C, with the residue 0 written as C.
ResidueOrFull(n, number) == IF n % number = 0 THEN number ELSE n % number

\* C30: every finalization reports the number of bytes moved since the
\* channel was last re-armed or initialised, modulo C, residue 0 being
\* reported as C, whether or not frames finalized earlier are still
\* unconsumed.
C30_ReportsMovedModuloC ==
    [][\A l \in Links :
          (TimerIRQHandler(l) /\ NotStale(recv_length[l], CapacityUsed(l))) =>
              /\ recv_complete_flag'[l] = 1
              /\ recv_length'[l] =
                     ResidueOrFull(MovedSinceLoad(l), RECEIVE_LENGTH(l))]_vars

\* A frame reported after the channel has wrapped and an earlier frame was
\* left unconsumed: C + 2 bytes since the re-arm, reported length 2.
C30_Witness ==
    \E l \in Links :
        /\ recv_complete_flag[l] = 1
        /\ moved[l] = RECEIVE_LENGTH(l) + 2
        /\ final_length[l] = 2
        /\ recv_length[l] = 2
        /\ elapses[ConfirmTimer(l)] = 1
        /\ hist[l] = "other"

\* C31: when *_print_fmt has disabled the transmit channel and formats into
\* the send buffer, the channel has no byte of the previous call's message
\* left to transfer.
C31_SendBufferDrained ==
    \A p \in TxPorts :
        (tx_pc[p] = "format" /\ tx_called[p]) => tx_cnt[p] = 0

\* C32: the count tcnt that delay_us accumulates never exceeds the ticks that
\* have elapsed since the function was entered, whatever the samples of the
\* counter (a decrease, a wrap, the same value twice), so the function
\* returns only after ticks = nus * fac_us ticks have elapsed.
C32_DelayAtLeastTicks ==
    /\ tcnt <= elapsed
    /\ delay_pc = "done" => elapsed >= ticks
    /\ (delay_pc = "done" /\ nus * FacUs < WordRange) => elapsed >= nus * FacUs

\* A call that has returned after a decrease, a wrap and a repeated value of
\* the counter were sampled.
C32_Witness ==
    /\ delay_pc = "done"
    /\ samples = {"down", "wrap", "same"}
    /\ nus * FacUs < WordRange
    /\ tcnt >= 2 * Reload

\* The smaller of two integers.
Min(a, b) == IF a < b THEN a ELSE b

\* C33: the transfer count that *_print_fmt programs is the smaller of the
\* length vsnprintf returned and the send capacity, for every value returned.
C33_CountIsClampedLength ==
    \A p \in TxPorts :
        tx_pc[p] = "enable" => tx_cnt[p] = Min(fmt_n[p], SEND_LENGTH(p))

====
